---------------------------- MODULE Spec2Model ----------------------------
(***************************************************************************)
(* A model of writ's index-entry codec (src/entry.rs) and of its           *)
(* workspace-relative path type (src/ws/path.rs).                          *)
(*                                                                         *)
(* Bytes are the naturals 0..255, a path is its sequence of raw bytes (the *)
(* contents of the PathBuf / OsString), and a byte stream is a sequence of *)
(* bytes.  Rust's Option is a sequence of length 0 (None) or 1 (Some).     *)
(***************************************************************************)
EXTENDS Integers, Sequences, FiniteSets, TLC

VARIABLES
    cur,        \* Option<Entry>: the Entry last returned by Entry::from / parse_from_index
    stream,     \* the writer: the bytes written so far
    written,    \* one record per completed write_to_index call: the Entry and the bytes it emitted
    rd,         \* the reader: [open, bytes, pos]
    src,        \* the write_to_index calls whose bytes the reader holds
    results,    \* the value returned by each parse_from_index call on the reader
    last,       \* the operation that ran last and how it ended
    outcome,    \* "running", or "panic" once an operation has aborted the program
    lhs,        \* Option<WsPath>: left operand of a comparison
    rhs,        \* Option<WsPath>: right operand of a comparison
    ordering,   \* Option<Ordering>: result of lhs.cmp(rhs)
    canon,      \* Option<Result<WsPath, NewCanonicalizeError>> of new_canonicalized
    iterOf,     \* Option<WsPath>: the path iter_parents() was called on
    inner,      \* Parents.inner: Option<NonEmptyParents>
    yielded     \* what each next() call on the Parents iterator returned, in order

vars == <<cur, stream, written, rd, src, results, last, outcome,
          lhs, rhs, ordering, canon, iterOf, inner, yielded>>

codecVars == <<cur, stream, written, rd, src, results, last>>
pathVars  == <<lhs, rhs, ordering, canon, iterOf, inner, yielded>>

-----------------------------------------------------------------------------
(* Bounds of the model.                                                    *)

MaxEntries == 2        \* write_to_index calls in one behaviour
MaxPathLen == 10       \* plain one-component paths of every length 1..MaxPathLen
MaxKeyLen == 3         \* bytes of the WsPath values that are compared
MaxCandLen == 3        \* components of the candidates given to new_canonicalized
MaxDepth == 4          \* components of the paths given to iter_parents
MaxExtraCalls == 2     \* next() calls made after the iterator first returned None

-----------------------------------------------------------------------------
(* Bytes and byte strings.                                                 *)

Ch == [nul |-> 0, dash |-> 45, dot |-> 46, slash |-> 47,
       a |-> 97, b |-> 98, d |-> 100, e |-> 101, f |-> 102, w |-> 119, x |-> 120]

NANOS_PER_SEC == 1000000000

\* Fixed-width unsigned integers are sequences of 16-bit limbs, most
\* significant first: a u32 is two limbs, a u64 four.  A u16 is a number.
Limb == 256 * 256
U32(hi, lo) == << hi, lo >>
U64(a, b, c, d) == << a, b, c, d >>
U32_MAX == U32(Limb - 1, Limb - 1)

\* u32::from(n) of a number below 2^31
U32Of(n) == U32(n \div Limb, n % Limb)

\* u64::from(u32)
U64From(v) == U64(0, 0, v[1], v[2])

\* u32::try_from(u64): None when the value does not fit
U32TryFrom(v) == IF v[1] = 0 /\ v[2] = 0 THEN << U32(v[3], v[4]) >> ELSE << >>

\* u64 + small number (checked_add; the sums used here never overflow a u64)
RECURSIVE AddSmall(_, _)
AddSmall(v, k) ==
    IF v = << >> THEN << >>
    ELSE LET sum == v[Len(v)] + k
         IN  AddSmall(SubSeq(v, 1, Len(v) - 1), sum \div Limb) \o << sum % Limb >>

\* quotient and remainder of a u32 by a divisor d with 2^29 < d <= 2^30
DivMod(v, d) ==
    LET half == Limb \div 2
        low == ((v[1] % half) * Limb) + v[2]          \* v mod 2^31
        top == v[1] \div half                         \* v div 2^31
        \* 2^31 = q31 * d + r31
        max31 == ((half - 1) * Limb) + (Limb - 1)
        q31 == max31 \div d
        r31 == (max31 % d) + 1
        rest == (low % d) + (top * (r31 % d))
    IN  [quot |-> (low \div d) + (top * (q31 + (r31 \div d))) + (rest \div d),
         rem |-> rest % d]

Repeat(byte, n) == [i \in 1..n |-> byte]

\* Lexicographic order of two byte strings (Ord for [u8], BStr, OsStr).
BytesLess(s, t) ==
    \E k \in 0..Len(s) :
        /\ k <= Len(t)
        /\ \A i \in 1..k : s[i] = t[i]
        /\ \/ (k = Len(s) /\ k < Len(t))
           \/ (k < Len(s) /\ k < Len(t) /\ s[k + 1] < t[k + 1])

\* byteorder's write_u32::<NetworkEndian> / write_u16::<NetworkEndian>
write_u32(v) == << v[1] \div 256, v[1] % 256, v[2] \div 256, v[2] % 256 >>

write_u16(v) == << (v \div 256) % 256, v % 256 >>

\* byteorder's read_u32 / read_u16 at 0-based offset pos (the caller checks the length)
read_u32(bytes, pos) ==
    U32(bytes[pos + 1] * 256 + bytes[pos + 2], bytes[pos + 3] * 256 + bytes[pos + 4])

read_u16(bytes, pos) == bytes[pos + 1] * 256 + bytes[pos + 2]

-----------------------------------------------------------------------------
(* std::path on Unix, as far as entry.rs and ws/path.rs use it.            *)

\* The positions of the separators of path p, in increasing order.
RECURSIVE SortedSeq(_)
SortedSeq(S) ==
    IF S = {} THEN << >>
    ELSE LET m == CHOOSE i \in S : \A j \in S : i <= j
         IN  << m >> \o SortedSeq(S \ {m})

SepPositions(p) == SortedSeq({i \in 1..Len(p) : p[i] = Ch.slash})

\* The pieces of p between separators (empty pieces included), in order.
Pieces(p) ==
    LET seps == SepPositions(p)
        n == Len(seps)
        lo(k) == IF k = 1 THEN 1 ELSE seps[k - 1] + 1
        hi(k) == IF k = n + 1 THEN Len(p) ELSE seps[k] - 1
    IN  [k \in 1..(n + 1) |-> SubSeq(p, lo(k), hi(k))]

has_root(p) == Len(p) > 0 /\ p[1] = Ch.slash

\* Path::components(): RootDir for a leading separator, CurDir only for a
\* leading ".", ParentDir for "..", Normal otherwise; empty pieces and
\* non-leading "." pieces are skipped.
Component(kind, name) == [kind |-> kind, name |-> name]

Components(p) ==
    LET ps == Pieces(p)
        tag(k) ==
            IF ps[k] = << >> THEN Component("Skip", << >>)
            ELSE IF ps[k] = << Ch.dot >>
                 THEN (IF k = 1 THEN Component("CurDir", << >>) ELSE Component("Skip", << >>))
            ELSE IF ps[k] = << Ch.dot, Ch.dot >> THEN Component("ParentDir", << >>)
            ELSE Component("Normal", ps[k])
        tagged == [k \in 1..Len(ps) |-> tag(k)]
        kept == SelectSeq(tagged, LAMBDA c : c.kind # "Skip")
    IN  (IF has_root(p) THEN << Component("RootDir", << >>) >> ELSE << >>) \o kept

\* Components::as_path() of a component sequence: the pieces joined by "/".
RECURSIVE AsPath(_)
AsPath(cs) ==
    IF cs = << >> THEN << >>
    ELSE LET c == cs[Len(cs)]
             text == CASE c.kind = "RootDir" -> << >>
                       [] c.kind = "CurDir" -> << Ch.dot >>
                       [] c.kind = "ParentDir" -> << Ch.dot, Ch.dot >>
                       [] OTHER -> c.name
             front == SubSeq(cs, 1, Len(cs) - 1)
         IN  IF front = << >> THEN (IF c.kind = "RootDir" THEN << Ch.slash >> ELSE text)
             ELSE IF front[Len(front)].kind = "RootDir" THEN << Ch.slash >> \o text
             ELSE AsPath(front) \o << Ch.slash >> \o text

\* Path::file_name(): the last component when it is Normal, else None.
file_name(p) ==
    LET cs == Components(p)
    IN  IF cs # << >> /\ cs[Len(cs)].kind = "Normal" THEN << cs[Len(cs)].name >> ELSE << >>

\* Path::parent(): the path without its last component; None for "" and "/".
parent(p) ==
    LET cs == Components(p)
    IN  IF cs = << >> \/ cs[Len(cs)].kind = "RootDir" THEN << >>
        ELSE << AsPath(SubSeq(cs, 1, Len(cs) - 1)) >>

\* PathBuf::push / Path::join: an absolute argument replaces the buffer,
\* otherwise a separator is added unless the buffer is empty or ends in one.
join(base, p) ==
    IF has_root(p) THEN p
    ELSE IF base = << >> \/ base[Len(base)] = Ch.slash THEN base \o p
    ELSE base \o << Ch.slash >> \o p

-----------------------------------------------------------------------------
(* src/entry.rs: Flags and PathLen.                                        *)

BLOCK_SIZE == 8
PATH_OFFSET == 62
PathLen_MAX == 4095
Oid_SIZE == 20

Exactly(len) == [tag |-> "Exactly", len |-> len]
MaxOrGreater == [tag |-> "MaxOrGreater", len |-> 0]

\* PathLen::from
PathLen_from(path) ==
    IF Len(path) <= PathLen_MAX THEN Exactly(Len(path)) ELSE MaxOrGreater

\* Flags::from_path
from_path(path) == [path_len |-> PathLen_from(path)]

\* Flags::from_u16
from_u16(val) ==
    [path_len |-> IF val <= PathLen_MAX THEN Exactly(val) ELSE MaxOrGreater]

\* Flags::as_u16 (an Exactly length always fits a u16: it is at most PathLen_MAX)
as_u16(flags) ==
    IF flags.path_len.tag = "Exactly" THEN flags.path_len.len ELSE PathLen_MAX

\* stat::Mode, a wrapper of the raw 32-bit mode
Mode_from_u32(v) == [raw |-> v]
Mode_as_u32(mode) == mode.raw

-----------------------------------------------------------------------------
(* src/entry.rs: Entry.  A SystemTime is its distance from the epoch:      *)
(* before it or not, whole seconds (a u64) and 0 <= nanos < 10^9.          *)

Time(secs, nanos) == [before |-> FALSE, secs |-> secs, nanos |-> nanos]
TimeBeforeEpoch(secs, nanos) == [before |-> TRUE, secs |-> secs, nanos |-> nanos]

\* padding_size as it would be with the fixed part of the record left out
padding_size_of_path_only(path) ==
    (BLOCK_SIZE - (Len(path) % BLOCK_SIZE)) % BLOCK_SIZE

\* Entry::padding_size
padding_size(path) ==
    LET len == PATH_OFFSET + Len(path)
    IN  (BLOCK_SIZE - (len % BLOCK_SIZE)) % BLOCK_SIZE

\* systemtime_to_epoch as it would be with `as u32` casts in place of the
\* checked conversions: the seconds wrap modulo 2^32
systemtime_to_epoch_wrapping(time) ==
    [ok |-> TRUE, secs |-> U32(time.secs[3], time.secs[4]), nanos |-> U32Of(time.nanos)]

\* Entry::systemtime_to_epoch: [ok |-> FALSE] is the panic of either expect()
systemtime_to_epoch(time) ==
    IF time.before THEN [ok |-> FALSE, secs |-> U32(0, 0), nanos |-> U32(0, 0)]
    ELSE IF U32TryFrom(time.secs) = << >>
         THEN [ok |-> FALSE, secs |-> U32(0, 0), nanos |-> U32(0, 0)]
    ELSE [ok |-> TRUE, secs |-> U32TryFrom(time.secs)[1], nanos |-> U32Of(time.nanos)]

\* Entry::systemtime_from_epoch: Duration::new carries whole seconds out of nanos
systemtime_from_epoch(secs, nanos) ==
    LET n == DivMod(nanos, NANOS_PER_SEC)
    IN  Time(AddSmall(U64From(secs), n.quot), n.rem)

\* Entry::get_filename: None is the panic of expect()
get_filename(path) == file_name(path)

\* Entry::from: [res |-> "Panic"] when the path has a ".." component or no file name
Entry_from(path, oid, stat) ==
    LET components == Components(path)
        filename == get_filename(path)
    IN
    IF \E i \in DOMAIN components : components[i].kind = "ParentDir"
    THEN [res |-> "Panic", entry |-> << >>]
    ELSE IF filename = << >> THEN [res |-> "Panic", entry |-> << >>]
    ELSE [res |-> "Ok",
          entry |-> << [oid |-> oid, ctime |-> stat.ctime, mtime |-> stat.mtime,
                        dev |-> stat.dev, ino |-> stat.ino, mode |-> stat.mode,
                        uid |-> stat.uid, gid |-> stat.gid, size |-> stat.size,
                        flags |-> from_path(path), path |-> path,
                        filename |-> filename[1]] >>]

\* Entry::key
key(entry) == entry.path

\* Entry::write_to_index on an in-memory writer: the bytes emitted and how the
\* call ended.  A time outside the u32 range panics after the fields before it
\* have been written.
write_to_index(entry) ==
    LET c == systemtime_to_epoch(entry.ctime)
        m == systemtime_to_epoch(entry.mtime)
        ctime == write_u32(c.secs) \o write_u32(c.nanos)
        mtime == write_u32(m.secs) \o write_u32(m.nanos)
    IN  IF ~c.ok THEN [res |-> "Panic", bytes |-> << >>]
        ELSE IF ~m.ok THEN [res |-> "Panic", bytes |-> ctime]
        ELSE [res |-> "Ok",
              bytes |-> ctime \o mtime
                        \o write_u32(entry.dev) \o write_u32(entry.ino)
                        \o write_u32(Mode_as_u32(entry.mode))
                        \o write_u32(entry.uid) \o write_u32(entry.gid)
                        \o write_u32(entry.size)
                        \o entry.oid
                        \o write_u16(as_u16(entry.flags))
                        \o entry.path
                        \o Repeat(Ch.nul, padding_size(entry.path))]

\* Entry::parse_from_index on a reader holding bytes, pos of them consumed.
\* `checked` is the build's overflow-checks setting: `padding_size - 1` on a
\* padding of 0 panics when it is on, and wraps to usize::MAX when it is off, so
\* that the skip loop runs into the end of the reader.
parse_from_index(bytes, pos, checked) ==
    LET Err == [res |-> "Err", entry |-> << >>, pos |-> Len(bytes)]
        Panic == [res |-> "Panic", entry |-> << >>, pos |-> Len(bytes)]
        pathAt == pos + PATH_OFFSET
        nuls == {i \in (pathAt + 1)..Len(bytes) : bytes[i] = Ch.nul}
        nulAt == CHOOSE i \in nuls : \A j \in nuls : i <= j
        path == SubSeq(bytes, pathAt + 1, nulAt - 1)
        skipTo == nulAt + padding_size(path) - 1
        filename == get_filename(path)
    IN  IF Len(bytes) < pathAt THEN Err
        ELSE IF nuls = {} THEN Err
        ELSE IF padding_size(path) = 0 THEN (IF checked THEN Panic ELSE Err)
        ELSE IF skipTo > Len(bytes) THEN Err
        ELSE IF filename = << >> THEN Panic
        ELSE [res |-> "Ok",
              entry |-> << [oid |-> SubSeq(bytes, pos + 41, pos + 40 + Oid_SIZE),
                            ctime |-> systemtime_from_epoch(read_u32(bytes, pos),
                                                            read_u32(bytes, pos + 4)),
                            mtime |-> systemtime_from_epoch(read_u32(bytes, pos + 8),
                                                            read_u32(bytes, pos + 12)),
                            dev |-> read_u32(bytes, pos + 16),
                            ino |-> read_u32(bytes, pos + 20),
                            mode |-> Mode_from_u32(read_u32(bytes, pos + 24)),
                            uid |-> read_u32(bytes, pos + 28),
                            gid |-> read_u32(bytes, pos + 32),
                            size |-> read_u32(bytes, pos + 36),
                            flags |-> from_u16(read_u16(bytes, pos + 40 + Oid_SIZE)),
                            path |-> path,
                            filename |-> filename[1]] >>,
              pos |-> skipTo]

-----------------------------------------------------------------------------
(* Inputs of the codec.                                                    *)

OidLow == [i \in 1..Oid_SIZE |-> i - 1]
OidHigh == [i \in 1..Oid_SIZE |-> 256 - i]

Stat(ctime, mtime, dev, ino, mode, uid, gid, size) ==
    [ctime |-> ctime, mtime |-> mtime, dev |-> dev, ino |-> ino,
     mode |-> Mode_from_u32(mode), uid |-> uid, gid |-> gid, size |-> size]

\* Snapshots whose times fit the u32 range on both ends of it ...
StatSmall ==
    Stat(Time(U64(0, 0, 0, 1), 0), Time(U64(0, 0, 0, 2), 5),
         U32Of(1), U32Of(2), U32Of(33188), U32Of(1000), U32Of(1000), U32Of(3))
StatLarge ==
    Stat(Time(U64From(U32_MAX), NANOS_PER_SEC - 1), Time(U64From(U32_MAX), NANOS_PER_SEC - 1),
         U32_MAX, U32Of(16777217), U32Of(33261), U32Of(0), U32_MAX, U32_MAX)
\* ... and snapshots with one time outside it: 2^32 and 2^33 + 7 seconds
\* after the epoch, and before the epoch.
StatMtimeOverflow ==
    Stat(Time(U64(0, 0, 0, 1), 0), Time(U64(0, 1, 0, 0), 0),
         U32Of(1), U32Of(2), U32Of(33188), U32Of(0), U32Of(0), U32Of(0))
StatCtimeOverflow ==
    Stat(Time(U64(0, 2, 0, 7), 1), Time(U64(0, 0, 0, 2), 5),
         U32Of(1), U32Of(2), U32Of(33188), U32Of(0), U32Of(0), U32Of(0))
StatMtimeBeforeEpoch ==
    Stat(Time(U64(0, 0, 0, 1), 0), TimeBeforeEpoch(U64(0, 0, 0, 1), NANOS_PER_SEC - 1),
         U32Of(1), U32Of(2), U32Of(33188), U32Of(0), U32Of(0), U32Of(0))
StatCtimeBeforeEpoch ==
    Stat(TimeBeforeEpoch(U64(0, 0, 0, 5), 0), Time(U64(0, 0, 0, 2), 5),
         U32Of(1), U32Of(2), U32Of(33188), U32Of(0), U32Of(0), U32Of(0))

ValidSnapshots == { <<OidLow, StatSmall>>, <<OidHigh, StatLarge>> }
Snapshots ==
    ValidSnapshots \cup { <<OidLow, StatMtimeOverflow>>, <<OidLow, StatCtimeOverflow>>,
                          <<OidLow, StatMtimeBeforeEpoch>>, <<OidLow, StatCtimeBeforeEpoch>> }

\* a plain one-component path of n bytes
PlainPath(n) == Repeat(Ch.a, n)

\* a/b, a.b, a/../b, ../a, a/.., ., /
PathInputs ==
    { PlainPath(n) : n \in 1..MaxPathLen }
    \cup { << Ch.a, Ch.slash, Ch.b >>, << Ch.a, Ch.dot, Ch.b >>,
           << Ch.a, Ch.slash, Ch.dot, Ch.dot, Ch.slash, Ch.b >>,
           << Ch.dot, Ch.dot, Ch.slash, Ch.a >>,
           << Ch.a, Ch.slash, Ch.dot, Ch.dot >>,
           << Ch.dot >>, << Ch.slash >> }

\* the paths of the entries written one after another into one stream:
\* a, aa, aaa, a/b
StreamPathInputs ==
    { PlainPath(n) : n \in 1..3 } \cup { << Ch.a, Ch.slash, Ch.b >> }

\* paths around the saturation point of the flags' length
LongPathInputs ==
    { PlainPath(n) : n \in {PathLen_MAX - 1, PathLen_MAX, PathLen_MAX + 1} }
    \cup { << Ch.a, Ch.slash >> \o PlainPath(PathLen_MAX) }

\* One record of an index file some writer produced, as a reader may hold it:
\* the layout of the records, with any 16-bit flags value and any stored
\* path, ended by `nuls` zero bytes.
IndexRecord(snap, rawFlags, path, nuls) ==
    LET st == snap[2]
    IN  write_u32(U32TryFrom(st.ctime.secs)[1]) \o write_u32(U32Of(st.ctime.nanos))
        \o write_u32(U32TryFrom(st.mtime.secs)[1]) \o write_u32(U32Of(st.mtime.nanos))
        \o write_u32(st.dev) \o write_u32(st.ino) \o write_u32(Mode_as_u32(st.mode))
        \o write_u32(st.uid) \o write_u32(st.gid) \o write_u32(st.size)
        \o snap[1] \o write_u16(rawFlags) \o path \o Repeat(Ch.nul, nuls)

StoredPaths ==
    { PlainPath(n) : n \in {1, 3, 4} }
    \cup { << Ch.a, Ch.slash, Ch.b >>,
           << Ch.a, Ch.slash, Ch.dot, Ch.dot, Ch.slash, Ch.b >>,
           << Ch.dot, Ch.dot, Ch.slash, Ch.a >>,
           << Ch.a, Ch.slash, Ch.dot, Ch.dot >> }

RawFlags == { 0, 1, 3, 4, 6, 7, PathLen_MAX - 1, PathLen_MAX, PathLen_MAX + 1, 32771, Limb - 1 }

\* the records end on the block boundary, after 1 to BLOCK_SIZE zero bytes
IndexFiles ==
    { IndexRecord(snap, raw, path,
                  BLOCK_SIZE - ((PATH_OFFSET + Len(path)) % BLOCK_SIZE)) :
        snap \in ValidSnapshots, raw \in RawFlags, path \in StoredPaths }

-----------------------------------------------------------------------------
(* The codec as a state machine.                                           *)

NoReader == [open |-> FALSE, bytes |-> << >>, pos |-> 0]

PathInit ==
    /\ lhs = << >> /\ rhs = << >> /\ ordering = << >> /\ canon = << >>
    /\ iterOf = << >> /\ inner = << >> /\ yielded = << >>

CodecInit ==
    /\ cur = << >> /\ stream = << >> /\ written = << >>
    /\ rd = NoReader /\ src = << >> /\ results = << >>
    /\ last = "init" /\ outcome = "running"

Init == CodecInit /\ PathInit

Writes == Len(written) + Len(src)

\* let e = Entry::from(path, oid, &stat)
DoEntryFrom(path, snap) ==
    LET r == Entry_from(path, snap[1], snap[2])
    IN  /\ outcome = "running"
        /\ Writes < MaxEntries
        /\ cur' = r.entry
        /\ last' = IF r.res = "Ok" THEN "from" ELSE "from_panic"
        /\ outcome' = IF r.res = "Ok" THEN "running" ELSE "panic"
        /\ UNCHANGED <<stream, written, rd, src, results>>
        /\ UNCHANGED pathVars

EntryFrom == \E path \in PathInputs, snap \in Snapshots : DoEntryFrom(path, snap)

EntryFromStream ==
    \E path \in StreamPathInputs, snap \in ValidSnapshots : DoEntryFrom(path, snap)

EntryFromLong == \E path \in LongPathInputs : DoEntryFrom(path, <<OidLow, StatSmall>>)

\* cur.write_to_index(&mut stream)
WriteToIndex ==
    /\ outcome = "running"
    /\ cur # << >>
    /\ Writes < MaxEntries
    /\ LET r == write_to_index(cur[1])
       IN  /\ stream' = stream \o r.bytes
           /\ written' = IF r.res = "Ok"
                         THEN Append(written, [entry |-> cur[1], bytes |-> r.bytes])
                         ELSE written
           /\ last' = IF r.res = "Ok" THEN "write" ELSE "write_panic"
           /\ outcome' = IF r.res = "Ok" THEN "running" ELSE "panic"
    /\ UNCHANGED <<cur, rd, src, results>>
    /\ UNCHANGED pathVars

\* the bytes written so far are handed to a reader; the writer starts afresh
OpenReader ==
    /\ outcome = "running"
    /\ ~rd.open
    /\ written # << >>
    /\ rd' = [open |-> TRUE, bytes |-> stream, pos |-> 0]
    /\ src' = written
    /\ stream' = << >>
    /\ written' = << >>
    /\ last' = "open"
    /\ UNCHANGED <<cur, results, outcome>>
    /\ UNCHANGED pathVars

\* let e = Entry::parse_from_index(&mut rd)
ParseFromIndex ==
    /\ outcome = "running"
    /\ rd.open
    /\ Len(results) < MaxEntries
    /\ \E checked \in BOOLEAN :
         LET r == parse_from_index(rd.bytes, rd.pos, checked)
         IN  /\ results' = Append(results, [res |-> r.res, entry |-> r.entry])
             /\ rd' = [rd EXCEPT !.pos = r.pos]
             /\ cur' = IF r.res = "Ok" THEN r.entry ELSE cur
             /\ last' = CASE r.res = "Ok" -> "parse"
                          [] r.res = "Err" -> "parse_err"
                          [] OTHER -> "parse_panic"
             /\ outcome' = IF r.res = "Panic" THEN "panic" ELSE "running"
    /\ UNCHANGED <<stream, written, src>>
    /\ UNCHANGED pathVars

\* Entries written back-to-back into one stream, which is then read back.
Next == EntryFromStream \/ WriteToIndex \/ OpenReader \/ ParseFromIndex

Spec == Init /\ [][Next]_vars

\* One record: any path and any snapshot, written and read back.
NewEntry == Writes = 0 /\ EntryFrom

WriteRecord == Writes = 0 /\ WriteToIndex

NextRecord == NewEntry \/ WriteRecord \/ OpenReader \/ ParseFromIndex

SpecRecord == Init /\ [][NextRecord]_vars

\* The codec on paths around the saturation point of the flags' length.
NextLong == EntryFromLong \/ WriteToIndex \/ OpenReader \/ ParseFromIndex

SpecLong == Init /\ [][NextLong]_vars

\* The codec reading an index file it did not write, and writing back what it read.
InitIndex ==
    /\ cur = << >> /\ stream = << >> /\ written = << >>
    /\ \E file \in IndexFiles : rd = [open |-> TRUE, bytes |-> file, pos |-> 0]
    /\ src = << >> /\ results = << >>
    /\ last = "init" /\ outcome = "running"
    /\ PathInit

NextIndex == ParseFromIndex \/ WriteToIndex

SpecIndex == InitIndex /\ [][NextIndex]_vars

-----------------------------------------------------------------------------
(* src/ws/path.rs: WsPath.  A WsPath is the bytes of the PathBuf it wraps. *)

\* WsPath::new_unchecked / WsPath::new_unchecked_bytes
new_unchecked(path) == path

\* WsPath::as_bstr
as_bstr(wspath) == wspath

\* Ord for std::path::Component (derived): the variants in declaration
\* order, two Normal components by their bytes.
ComponentRank(c) ==
    CASE c.kind = "RootDir" -> 1
      [] c.kind = "CurDir" -> 2
      [] c.kind = "ParentDir" -> 3
      [] OTHER -> 4

ComponentLess(c, d) ==
    \/ ComponentRank(c) < ComponentRank(d)
    \/ c.kind = "Normal" /\ d.kind = "Normal" /\ BytesLess(c.name, d.name)

\* Ord for Path: the component sequences compared lexicographically
ComponentsLess(cs, ds) ==
    \E k \in 0..Len(cs) :
        /\ k <= Len(ds)
        /\ \A i \in 1..k : cs[i] = ds[i]
        /\ \/ (k = Len(cs) /\ k < Len(ds))
           \/ (k < Len(cs) /\ k < Len(ds) /\ ComponentLess(cs[k + 1], ds[k + 1]))

\* #[derive(Ord)] on WsPath(PathBuf): PathBuf's comparison
WsPath_cmp(a, b) ==
    LET cs == Components(a)
        ds == Components(b)
    IN  IF cs = ds THEN "Equal"
        ELSE IF ComponentsLess(cs, ds) THEN "Less"
        ELSE "Greater"

\* Path::strip_prefix: None unless base's components start path's
strip_prefix(path, base) ==
    LET cs == Components(path)
        bs == Components(base)
    IN  IF Len(bs) <= Len(cs) /\ SubSeq(cs, 1, Len(bs)) = bs
        THEN << AsPath(SubSeq(cs, Len(bs) + 1, Len(cs))) >>
        ELSE << >>

-----------------------------------------------------------------------------
(* The file system new_canonicalized resolves against: each node is named  *)
(* by the names on its real path from the root.                            *)

Name == [w |-> << Ch.w >>, d |-> << Ch.d >>, f |-> << Ch.f >>, e |-> << Ch.e >>,
         x |-> << Ch.x >>, l |-> << Ch.a >>, up |-> << Ch.dot, Ch.dot >>]

\*  /  /w  /w/d  /e          directories
\*  /w/f  /w/d/f  /e/x       files
\*  /w/l -> /e   /w/d/l -> /w   /l -> /w     symbolic links
Dirs == { << >>, << Name.w >>, << Name.w, Name.d >>, << Name.e >> }
Files == { << Name.w, Name.f >>, << Name.w, Name.d, Name.f >>, << Name.e, Name.x >> }
LinkAt == { << Name.w, Name.l >>, << Name.w, Name.d, Name.l >>, << Name.l >> }
LinkTarget(node) ==
    CASE node = << Name.w, Name.l >> -> << Name.e >>
      [] node = << Name.w, Name.d, Name.l >> -> << Name.w >>
      [] OTHER -> << Name.w >>

NodePath(node) ==
    AsPath(<< Component("RootDir", << >>) >>
           \o [i \in 1..Len(node) |-> Component("Normal", node[i])])

\* Walks the components cs from the node `at`: "" is ENOENT / ENOTDIR.
RECURSIVE Resolve(_, _)
Resolve(cs, at) ==
    IF cs = << >> THEN [ok |-> TRUE, node |-> at]
    ELSE LET c == cs[1]
             rest == SubSeq(cs, 2, Len(cs))
             down == Append(at, c.name)
         IN  CASE c.kind = "RootDir" -> Resolve(rest, << >>)
               [] c.kind = "CurDir" -> Resolve(rest, at)
               [] c.kind = "ParentDir" ->
                    Resolve(rest, IF at = << >> THEN at ELSE SubSeq(at, 1, Len(at) - 1))
               [] OTHER ->
                    IF down \in LinkAt THEN Resolve(rest, LinkTarget(down))
                    ELSE IF down \in Dirs THEN Resolve(rest, down)
                    ELSE IF down \in Files /\ rest = << >> THEN [ok |-> TRUE, node |-> down]
                    ELSE [ok |-> FALSE, node |-> << >>]

\* Path::canonicalize of an absolute path: the real path of the node it
\* reaches, or an io::Error when a component is missing or is not a directory.
canonicalize(path) ==
    LET r == Resolve(Components(path), << >>)
    IN  IF ~r.ok THEN [ok |-> FALSE, path |-> << >>]
        ELSE IF r.node \in Files /\ Pieces(path)[Len(Pieces(path))] \in { << >>, << Ch.dot >> }
             THEN [ok |-> FALSE, path |-> << >>]
        ELSE [ok |-> TRUE, path |-> NodePath(r.node)]

\* new_canonicalized as it would be without the call to canonicalize()
new_canonicalized_unresolved(path, root) ==
    LET stripped == strip_prefix(join(root, path), root)
    IN  IF stripped # << >> THEN [tag |-> "Ok", path |-> new_unchecked(stripped[1])]
        ELSE [tag |-> "NotInWorkspace", path |-> path]

\* WsPath::new_canonicalized; `root` is workspace.path()
new_canonicalized(path, root) ==
    LET abs == canonicalize(join(root, path))
        stripped == strip_prefix(abs.path, root)
    IN  IF ~abs.ok THEN [tag |-> "Io", path |-> path]
        ELSE IF stripped # << >> THEN [tag |-> "Ok", path |-> new_unchecked(stripped[1])]
        ELSE [tag |-> "NotInWorkspace", path |-> path]

-----------------------------------------------------------------------------
(* src/ws/path.rs: Parents, the iterator iter_parents() returns.           *)

\* Parents::new as it would be iterating the path itself, not its parent
Parents_new_of_self(wspath) ==
    IF parent(wspath) = << >> THEN << >>
    ELSE << [remaining |-> Components(wspath), prefix |-> << >>] >>

\* Parents::new
Parents_new(wspath) ==
    IF parent(wspath) = << >> THEN << >>
    ELSE << [remaining |-> Components(parent(wspath)[1]), prefix |-> << >>] >>

\* Parents::next on the iterator state `it` (Parents.inner): the item
\* returned, the state left behind, and whether the call panicked.
Parents_next(it) ==
    IF it = << >> THEN [item |-> << >>, inner |-> it, panic |-> FALSE]
    ELSE IF it[1].remaining # << >>
    THEN LET component == it[1].remaining[1]
             rest == SubSeq(it[1].remaining, 2, Len(it[1].remaining))
             full == join(it[1].prefix, component.name)
         IN  IF component.kind = "Normal"
             THEN [item |-> << full >>,
                   inner |-> << [remaining |-> rest,
                                 prefix |-> join(it[1].prefix, component.name)] >>,
                   panic |-> FALSE]
             ELSE [item |-> << >>, inner |-> << [it[1] EXCEPT !.remaining = rest] >>,
                   panic |-> TRUE]
    ELSE [item |-> << >>, inner |-> << >>, panic |-> FALSE]

-----------------------------------------------------------------------------
(* Inputs of the path operations.                                          *)

SeqsUpTo(S, n) == UNION { [1..k -> S] : k \in 1..n }

NamesPath(names) == AsPath([i \in 1..Len(names) |-> Component("Normal", names[i])])

\* a path the unchecked constructors may be given: plain components only,
\* written without redundant separators
IsNormalized(path) ==
    /\ path # << >>
    /\ \A i \in DOMAIN Components(path) : Components(path)[i].kind = "Normal"
    /\ AsPath(Components(path)) = path

\* the normalized paths of at most MaxKeyLen bytes over the bytes . / a
KeyPaths == { path \in SeqsUpTo({Ch.dot, Ch.slash, Ch.a}, MaxKeyLen) : IsNormalized(path) }

\* workspace roots: a directory, a symbolic link to it, a subdirectory
Roots == { NodePath(<< Name.w >>), NodePath(<< Name.l >>), NodePath(<< Name.w, Name.d >>) }

\* candidates: relative paths of up to MaxCandLen names, the same under / and
\* under /w, and the empty path
RelativeCandidates ==
    { NamesPath(names) :
        names \in SeqsUpTo({Name.f, Name.d, Name.l, Name.e, Name.x, Name.up}, MaxCandLen) }

Candidates ==
    RelativeCandidates
    \cup { << Ch.slash >> \o rel : rel \in RelativeCandidates }
    \cup { join(NodePath(<< Name.w >>), rel) : rel \in RelativeCandidates }
    \cup { << >> }

\* paths given to iter_parents: normalized paths of up to MaxDepth
\* components, and a few paths that are not normalized
IterPaths ==
    { NamesPath(names) : names \in SeqsUpTo({ << Ch.a >>, << Ch.b, Ch.d >> }, MaxDepth) }
    \cup { << >>,
           << Ch.dot, Ch.dot, Ch.slash, Ch.a >>,
           << Ch.a, Ch.slash, Ch.dot, Ch.dot, Ch.slash, Ch.b, Ch.slash, Ch.x >> }

-----------------------------------------------------------------------------
(* The path operations as state machines.                                  *)

\* lhs = WsPath::new_unchecked_bytes(path)
NewLhs ==
    /\ \E path \in KeyPaths : lhs' = << new_unchecked(path) >>
    /\ ordering' = << >>
    /\ UNCHANGED <<rhs, canon, iterOf, inner, yielded, outcome>>
    /\ UNCHANGED codecVars

\* rhs = WsPath::new_unchecked_bytes(path)
NewRhs ==
    /\ \E path \in KeyPaths : rhs' = << new_unchecked(path) >>
    /\ ordering' = << >>
    /\ UNCHANGED <<lhs, canon, iterOf, inner, yielded, outcome>>
    /\ UNCHANGED codecVars

\* ordering = lhs.cmp(&rhs)
Compare ==
    /\ lhs # << >> /\ rhs # << >>
    /\ ordering' = << WsPath_cmp(lhs[1], rhs[1]) >>
    /\ UNCHANGED <<lhs, rhs, canon, iterOf, inner, yielded, outcome>>
    /\ UNCHANGED codecVars

NextOrd == NewLhs \/ NewRhs \/ Compare

SpecOrd == Init /\ [][NextOrd]_vars

\* canon = WsPath::new_canonicalized(path, &workspace)
NewCanonicalized ==
    /\ canon = << >>
    /\ \E path \in Candidates, root \in Roots :
         canon' = << [path |-> path, root |-> root, res |-> new_canonicalized(path, root)] >>
    /\ UNCHANGED <<lhs, rhs, ordering, iterOf, inner, yielded, outcome>>
    /\ UNCHANGED codecVars

NextCanon == NewCanonicalized

SpecCanon == Init /\ [][NextCanon]_vars

\* let mut parents = wspath.iter_parents()
IterParents ==
    /\ outcome = "running"
    /\ iterOf = << >>
    /\ \E path \in IterPaths :
         /\ iterOf' = << new_unchecked(path) >>
         /\ inner' = Parents_new(new_unchecked(path))
    /\ yielded' = << >>
    /\ UNCHANGED <<lhs, rhs, ordering, canon, outcome>>
    /\ UNCHANGED codecVars

Nones(items) == Len(SelectSeq(items, LAMBDA item : item = << >>))

\* parents.next()
ParentsNext ==
    /\ outcome = "running"
    /\ iterOf # << >>
    /\ Nones(yielded) <= MaxExtraCalls
    /\ LET r == Parents_next(inner)
       IN  /\ inner' = r.inner
           /\ yielded' = IF r.panic THEN yielded ELSE Append(yielded, r.item)
           /\ outcome' = IF r.panic THEN "panic" ELSE "running"
    /\ UNCHANGED <<lhs, rhs, ordering, canon, iterOf>>
    /\ UNCHANGED codecVars

NextParents == IterParents \/ ParentsNext

SpecParents == Init /\ [][NextParents]_vars

-----------------------------------------------------------------------------
(* Properties.                                                             *)

\* every write_to_index call that completed, the reader's ones first
Records == src \o written

\* every Entry value there is
AllEntries ==
    { cur[i] : i \in DOMAIN cur }
    \cup { Records[i].entry : i \in DOMAIN Records }
    \cup { results[i].entry[1] : i \in { j \in DOMAIN results : results[j].res = "Ok" } }

SameEntry(e1, e2) ==
    /\ e1.oid = e2.oid /\ e1.ctime = e2.ctime /\ e1.mtime = e2.mtime
    /\ e1.dev = e2.dev /\ e1.ino = e2.ino /\ e1.mode = e2.mode
    /\ e1.uid = e2.uid /\ e1.gid = e2.gid /\ e1.size = e2.size
    /\ e1.path = e2.path /\ e1.filename = e2.filename

AllZero(bytes) == \A i \in DOMAIN bytes : bytes[i] = Ch.nul

HasParentDir(path) ==
    \E i \in DOMAIN Components(path) : Components(path)[i].kind = "ParentDir"

InU32Range(time) == ~time.before /\ time.secs[1] = 0 /\ time.secs[2] = 0

\* C1: the entries written back-to-back into a stream are read back, in
\* order, by as many parse_from_index calls, equal in every field but the
\* flags, and the reader then stands at the end of the stream.
StreamRoundTrip ==
    rd.open =>
        /\ \A i \in DOMAIN results :
              i <= Len(src) =>
                  /\ results[i].res = "Ok"
                  /\ SameEntry(results[i].entry[1], src[i].entry)
        /\ Len(results) = Len(src) => rd.pos = Len(rd.bytes)

\* C2: in every record written, the path bytes are followed by one to eight
\* zero bytes (the terminator and up to seven bytes of padding) and nothing else.
TerminatorAndPadding ==
    \A i \in DOMAIN Records :
        LET bytes == Records[i].bytes
            path == Records[i].entry.path
            tail == SubSeq(bytes, PATH_OFFSET + Len(path) + 1, Len(bytes))
        IN  /\ SubSeq(bytes, PATH_OFFSET + 1, PATH_OFFSET + Len(path)) = path
            /\ Len(tail) >= 1 /\ Len(tail) <= BLOCK_SIZE
            /\ AllZero(tail)

\* C3: no Entry value, whether Entry::from or parse_from_index returned it,
\* has a path with a ".." component.
NoParentDirInEntry == \A e \in AllEntries : ~HasParentDir(e.path)

\* C4: WsPath's order is the lexicographic order of the paths' bytes.
OrdAgreesWithBytes ==
    ordering # << >> =>
        (ordering[1] = "Less" <=> BytesLess(as_bstr(lhs[1]), as_bstr(rhs[1])))

\* C5: the flags written in every record are the byte length of the path
\* written in it, saturated at 4095.
FlagsWrittenFromPathLen ==
    \A i \in DOMAIN Records :
        read_u16(Records[i].bytes, PATH_OFFSET - 2) =
            (IF Len(Records[i].entry.path) < PathLen_MAX
             THEN Len(Records[i].entry.path) ELSE PathLen_MAX)

\* C6: the flags of an Entry are the sentinel exactly when its path is 4095
\* bytes or longer (an exact length only up to 4094), and the flags of such
\* an Entry are the same sentinel after it was written and parsed.
FlagsSaturateAt4095 ==
    /\ \A e \in AllEntries :
          e.flags.path_len.tag = "MaxOrGreater" <=> Len(e.path) >= PathLen_MAX
    /\ \A i \in DOMAIN results :
          (i <= Len(src) /\ results[i].res = "Ok" /\ Len(src[i].entry.path) >= PathLen_MAX)
              => results[i].entry[1].flags = src[i].entry.flags

\* C7: new_canonicalized returns Ok exactly when the resolved candidate is
\* the workspace root or lies under it, and then with the rest of the
\* resolved path after the root; NotInWorkspace when the candidate resolves
\* to anything else; Io when it does not resolve.
Under(abs, root) ==
    \/ abs = root
    \/ /\ Len(abs) > Len(root)
       /\ SubSeq(abs, 1, Len(root)) = root
       /\ abs[Len(root) + 1] = Ch.slash

CanonicalizedInsideWorkspace ==
    canon # << >> =>
        LET c == canon[1]
            abs == canonicalize(join(c.root, c.path))
        IN  /\ c.res.tag = "Ok" <=> (abs.ok /\ Under(abs.path, c.root))
            /\ c.res.tag = "Ok" =>
                   c.res.path = SubSeq(abs.path, Len(c.root) + 2, Len(abs.path))
            /\ c.res.tag = "NotInWorkspace" <=> (abs.ok /\ ~Under(abs.path, c.root))
            /\ c.res.tag = "Io" <=> ~abs.ok

\* /w/../e/x against the root /w is refused as outside the workspace
CanonicalizedEscapeRefused ==
    /\ canon # << >>
    /\ canon[1].root = NodePath(<< Name.w >>)
    /\ canon[1].path = join(NodePath(<< Name.w >>), NamesPath(<< Name.up, Name.e, Name.x >>))
    /\ canon[1].res.tag = "NotInWorkspace"

\* C8: on a normalized path of n components the next() calls return the
\* n-1 cumulative paths c1, c1/c2, ..., shallowest first, and None on every
\* call after that.
ParentsThenNoneForever ==
    (iterOf # << >> /\ IsNormalized(iterOf[1])) =>
        LET path == iterOf[1]
            seps == SepPositions(path)
        IN  /\ outcome = "running"
            /\ \A i \in DOMAIN yielded :
                  yielded[i] = IF i <= Len(seps)
                               THEN << SubSeq(path, 1, seps[i] - 1) >>
                               ELSE << >>

\* a path of four components was iterated to its end and next() called again
ParentsCalledPastEnd ==
    /\ iterOf # << >> /\ IsNormalized(iterOf[1])
    /\ Len(SepPositions(iterOf[1])) = 3
    /\ Len(yielded) >= 5

\* C9: write_to_index never returns Ok for an Entry whose ctime or mtime is
\* before the epoch or beyond the u32 range of seconds, and writes no
\* seconds field for such a time.
WriteFailsOnTimeOutOfRange ==
    /\ last = "write" => (InU32Range(cur[1].ctime) /\ InU32Range(cur[1].mtime))
    /\ (last \in {"write", "write_panic"} /\ ~InU32Range(cur[1].ctime)) => stream = << >>
    /\ (last \in {"write", "write_panic"} /\ ~InU32Range(cur[1].mtime)) => Len(stream) <= 8

\* write_to_index was called on an Entry whose mtime is beyond the u32 range
WriteOfOverflowingMtime ==
    /\ last = "write_panic"
    /\ ~cur[1].mtime.before /\ cur[1].mtime.secs[2] > 0

\* C10: the number of bytes of every record written is a multiple of 8.
RecordLengthMultipleOf8 ==
    \A i \in DOMAIN Records :
        /\ Len(Records[i].bytes) % 8 = 0
        /\ Len(Records[i].bytes) >= PATH_OFFSET + Len(Records[i].entry.path)

\* a record with a path of 9 bytes was written
RecordWithPadding ==
    \E i \in DOMAIN Records :
        Len(Records[i].entry.path) = 9 /\ Len(Records[i].bytes) = 72

=============================================================================
